---- MODULE Spec2Model ----
(***************************************************************************)
(* Verification model of cloudquota/AWS-AutoSail (Go).                     *)
(*                                                                         *)
(*   SpecAws      the Lightsail orchestration functions and SafeRetry      *)
(*                (internal/aws/lightsail.go and the retry helper)         *)
(*   SpecSession  the in-memory session store and its sweeper goroutine    *)
(*                (internal/session/session.go)                            *)
(*   SpecKeys     the api_keys table operations (internal/store/db.go)     *)
(*   SpecUsers    the users table and concurrent EnsureUser calls          *)
(*   SpecSanitize the pure function sanitize                               *)
(*                                                                         *)
(* Every specification owns a group of the variables below and leaves the  *)
(* others at their initial values.                                         *)
(***************************************************************************)
EXTENDS Integers, Sequences, FiniteSets, TLC

VARIABLES
    \* ---- SpecAws ----
    op,          \* the exported function being executed
    pc,          \* position inside it
    retTo,       \* where the running SafeRetry returns to
    dpRet,       \* where the running DeletePreviousStaticIPOnlyForInstance returns to
    sr,          \* SafeRetry's parameters and locals: actionName, retries, baseSleep, i, last
    srErr,       \* the value the last SafeRetry returned
    srObs,       \* observation of the running SafeRetry: fn calls, their results, the sleeps
    aws,         \* the Lightsail account: the old and the new static IP, the instance
    calls,       \* number of mutating SDK calls issued by the running operation
    failed,      \* SDK calls that failed and were not retried successfully since
    oldName,     \* local of DeletePreviousStaticIPOnlyForInstance
    ok,          \* result of WaitStaticIPDetached
    elapsed,     \* seconds since the running polling loop computed its deadline
    obs,         \* observation of DeletePrevious: what had happened when a step was taken
    dpResult,    \* what the nested DeletePreviousStaticIPOnlyForInstance returned
    result,      \* what the exported function returned
    fusedMulAdd, \* whether the build fuses x*y + z into one rounding (arm64, ppc64, s390x)
    \* ---- SpecSession ----
    now,         \* time.Now(), in minutes
    tickDue,     \* ticker.C holds a tick
    stMu,        \* Store.mu: "free" or the goroutine holding it
    stm,         \* Store.m: id -> *Session
    heap,        \* the Session objects reachable from Store.m or from a handler
    gen,         \* number of Session objects allocated for an id so far
    hpc,         \* position of each handler goroutine
    hid,         \* the id a handler passed to GetOrCreate
    href,        \* the *Session a handler holds
    spc,         \* position of the cleanupLoop goroutine
    expiredBefore, \* local of cleanupExpired
    todo,        \* ids the range loop of cleanupExpired has not visited yet
    cur,         \* id of the running iteration
    curLast,     \* what sess.LastAccess() returned in the running iteration
    requested,   \* ids passed to GetOrCreate so far
    sweepObs,    \* observation of the running or last cleanupExpired
    \* ---- SpecKeys ----
    api_keys,    \* table api_keys: id -> row
    keySeq,      \* sqlite_sequence of api_keys: the largest id ever given
    keyCall,     \* the last call of a key operation and its arguments
    keyRet,      \* what that call returned
    \* ---- SpecUsers ----
    users,       \* table users: the rows in insertion order
    upc,         \* position of each EnsureUser caller
    uarg,        \* trimmed username and password of the caller's last call that had both
    uret,        \* what the caller's last EnsureUser returned
    createdTrue, \* number of calls that returned created = true, per username
    createdWith, \* the trimmed password of the call that returned created = true, per username
    auth,        \* the last AuthenticateUser call: its trimmed arguments and what it returned
    \* ---- SpecSanitize ----
    sanIn,       \* the argument of sanitize
    sanOut,      \* sanitize(sanIn)
    sanAgain,    \* sanitize(sanOut)
    sanPc,       \* what has been computed
    \* ---- SpecLocks ----
    lkStore,     \* Store.mu: the goroutine that holds it, or no one
    lkW,         \* Session.mu of each Session: the writer that holds or has claimed it
    lkR,         \* Session.mu of each Session: the readers inside
    lkMap,       \* Store.m: id -> address of the Session
    lkRef,       \* the *Session a request goroutine holds
    lkPc,        \* position of each goroutine
    lkOp,        \* the function each goroutine is in
    lkTgt,       \* the Session whose method the goroutine is in
    lkId,        \* the id a request goroutine passed to GetOrCreate
    lkTodo,      \* ids the range loop of cleanupExpired has not visited yet
    lkCur        \* id of the running iteration

awsVars == <<op, pc, retTo, dpRet, sr, srErr, srObs, aws, calls, failed, oldName, ok,
             elapsed, obs, dpResult, result, fusedMulAdd>>
sessionVars == <<now, tickDue, stMu, stm, heap, gen, hpc, hid, href, spc, expiredBefore,
                 todo, cur, curLast, requested, sweepObs>>
keysVars == <<api_keys, keySeq, keyCall, keyRet>>
usersVars == <<users, upc, uarg, uret, createdTrue, createdWith, auth>>
sanitizeVars == <<sanIn, sanOut, sanAgain, sanPc>>
lockVars == <<lkStore, lkW, lkR, lkMap, lkRef, lkPc, lkOp, lkTgt, lkId, lkTodo, lkCur>>

vars == <<awsVars, sessionVars, keysVars, usersVars, sanitizeVars, lockVars>>

\* the variables a specification leaves at their initial values
notAws == <<sessionVars, keysVars, usersVars, sanitizeVars, lockVars>>
notSession == <<awsVars, keysVars, usersVars, sanitizeVars, lockVars>>
notKeys == <<awsVars, sessionVars, usersVars, sanitizeVars, lockVars>>
notUsers == <<awsVars, sessionVars, keysVars, sanitizeVars, lockVars>>
notSanitize == <<awsVars, sessionVars, keysVars, usersVars, lockVars>>
notLocks == <<awsVars, sessionVars, keysVars, usersVars, sanitizeVars>>

\* errors are chains of messages, the outermost first; nil is the empty chain
Nil == <<>>

(***************************************************************************)
(* float64 arithmetic of SafeRetry's backoff expression                    *)
(*   time.Duration(float64(baseSleep) * (1.0 + float64(i)*0.35))           *)
(* A non-negative real x * 2^-FracBits is held as the natural number x in  *)
(* NumLimbs limbs of LimbBits bits, least significant first.               *)
(***************************************************************************)
LimbBits == 13
NumLimbs == 7
MantissaBits == 53
FracBits == 54

RECURSIVE Pow2(_)
Pow2(n) == IF n = 0 THEN 1 ELSE 2 * Pow2(n - 1)

LimbBase == Pow2(LimbBits)
Limbs == 1..NumLimbs

RECURSIVE CarryIn(_, _)
CarryIn(cols, k) ==
    IF k = 1 THEN 0 ELSE (cols[k - 1] + CarryIn(cols, k - 1)) \div LimbBase

Normalize(cols) ==
    LET n == [k \in Limbs |-> (cols[k] + CarryIn(cols, k)) % LimbBase]
    IN  <<n[1], n[2], n[3], n[4], n[5], n[6], n[7]>>

LimbAt(x, k) == IF k >= 1 THEN x[k] ELSE 0

BigFromInt(n) ==
    Normalize(<<n % LimbBase, (n \div LimbBase) % LimbBase,
                n \div (LimbBase * LimbBase), 0, 0, 0, 0>>)

BigAdd(x, y) == Normalize([k \in Limbs |-> x[k] + y[k]])

BigMulInt(x, n) ==
    LET m == BigFromInt(n)
    IN  Normalize([k \in Limbs |->
            x[k] * m[1] + LimbAt(x, k - 1) * m[2] + LimbAt(x, k - 2) * m[3]])

BigPow2(e) ==
    LET u == [k \in Limbs |-> IF k = (e \div LimbBits) + 1 THEN Pow2(e % LimbBits) ELSE 0]
    IN  <<u[1], u[2], u[3], u[4], u[5], u[6], u[7]>>

RECURSIVE RemAbove(_, _, _)
RemAbove(x, d, k) ==
    IF k > NumLimbs THEN 0 ELSE (RemAbove(x, d, k + 1) * LimbBase + x[k]) % d

BigDivInt(x, d) ==
    LET q == [k \in Limbs |-> (RemAbove(x, d, k + 1) * LimbBase + x[k]) \div d]
    IN  [quot |-> <<q[1], q[2], q[3], q[4], q[5], q[6], q[7]>>, rem |-> RemAbove(x, d, 1)]

IntBitLen(v) == CHOOSE b \in 0..LimbBits : v < Pow2(b) /\ (b = 0 \/ v >= Pow2(b - 1))

BigBitLen(x) ==
    LET nz == {k \in Limbs : x[k] # 0}
    IN  IF nz = {} THEN 0
        ELSE LET top == CHOOSE k \in nz : \A j \in nz : j <= k
             IN  (top - 1) * LimbBits + IntBitLen(x[top])

BitAt(x, b) == (x[(b \div LimbBits) + 1] \div Pow2(b % LimbBits)) % 2

\* IEEE 754 round-to-nearest-even to a float64 (MantissaBits significant bits)
RoundToFloat64(x) ==
    LET s == BigBitLen(x) - MantissaBits
    IN  IF s <= 0 THEN x
        ELSE LET q == s \div LimbBits
                 r == s % LimbBits
                 k == [j \in Limbs |-> IF j <= q THEN 0
                                       ELSE IF j = q + 1 THEN x[j] - (x[j] % Pow2(r))
                                       ELSE x[j]]
                 kept == <<k[1], k[2], k[3], k[4], k[5], k[6], k[7]>>
                 half == BitAt(x, s - 1) = 1
                 sticky == \E b \in 0..(s - 2) : BitAt(x, b) = 1
                 odd == BitAt(x, s) = 1
             IN  IF half /\ (sticky \/ odd) THEN BigAdd(kept, BigPow2(s)) ELSE kept

\* the float64 the compiler stores for the constant 0.35 = 35/100
Point35 ==
    LET d == BigDivInt(BigMulInt(BigPow2(FracBits), 35), 100)
    IN  IF 2 * d.rem > 100 \/ (2 * d.rem = 100 /\ d.quot[1] % 2 = 1)
        THEN BigAdd(d.quot, BigPow2(0)) ELSE d.quot

\* 1.0 + float64(i)*0.35: two roundings, or one when the build fuses the multiply-add
BackoffFactor(i, fused) ==
    IF fused
    THEN RoundToFloat64(BigAdd(BigMulInt(Point35, i), BigPow2(FracBits)))
    ELSE RoundToFloat64(BigAdd(RoundToFloat64(BigMulInt(Point35, i)), BigPow2(FracBits)))

\* time.Duration(f): truncation of f = x * 2^-FracBits to an int64 count of
\* nanoseconds, given as whole seconds and remaining nanoseconds
TruncToDuration(x) ==
    LET lo == x[5] \div 4
        hi == x[6] + LimbBase * x[7]
        v512 == hi * 4 + (lo \div 512)
    IN  [s |-> v512 \div 1953125, ns |-> (v512 % 1953125) * 512 + (lo % 512)]

\* a backoff that ignores the attempt index i
BackoffSleepConstant(baseMs, i, fused) ==
    TruncToDuration(RoundToFloat64(BigMulInt(BackoffFactor(0, fused), baseMs * 1000000)))

\* the sleep after failed attempt i, for a baseSleep of baseMs milliseconds
BackoffSleep(baseMs, i, fused) ==
    TruncToDuration(RoundToFloat64(BigMulInt(BackoffFactor(i, fused), baseMs * 1000000)))


(***************************************************************************)
(* SafeRetry (the retry helper) and the Lightsail orchestration            *)
(***************************************************************************)
\* what an SDK call can answer besides success: one error a retry may cure, one it cannot
SdkErrors == {<<"ThrottlingException">>, <<"AccessDeniedException">>}
SdkOutcomes == {Nil} \cup SdkErrors

\* bounds of the direct SafeRetry calls explored
MaxRetries == 3
RetryInputs == (0 - 1)..MaxRetries
BaseSleeps == {1200, 1300}

\* retries, baseSleep (ms) and deadlines (s) as the call sites give them
DetachRetries == 8
ReleaseRetries == 12
AllocateRetries == 8
AttachRetries == 8
DeleteRetries == 8
BaseSleepMs == 1200
ReleaseBaseSleepMs == 1300
DetachTimeout == 120
ReleaseTimeout == 90
PollSleep == 2

Mutating == {"DetachStaticIp", "ReleaseStaticIp", "AllocateStaticIp",
             "AttachStaticIp", "DeleteInstance"}

NoCalls == [k \in Mutating |-> 0]

\* fmt.Errorf("%s ...: %v", actionName, last)
WrapError(actionName, cause) == <<actionName>> \o cause

\* retries taken as given, without the floor of 1
AttemptsUnclamped(retries) == retries

\* a loop that runs once more than retries (i <= retries)
AttemptsOneMore(retries) == IF retries < 1 THEN 2 ELSE retries + 1

\* if retries < 1 { retries = 1 }
Attempts(retries) == IF retries < 1 THEN 1 ELSE retries

\* a SafeRetry that reports success when its attempts are used up
SafeRetryFailureSwallowed(actionName, last) == Nil

\* the return after the loop: fmt.Errorf(..., actionName, last)
SafeRetryFailure(actionName, last) == WrapError(actionName, last)

\* the effect of a successful mutating SDK call on the account
SdkEffect(a, call) ==
    CASE call = "DetachStaticIp"   -> [a EXCEPT !.old = "detached"]
      [] call = "ReleaseStaticIp"  -> [a EXCEPT !.old = "released"]
      [] call = "AllocateStaticIp" -> [a EXCEPT !.new = "allocated"]
      [] call = "AttachStaticIp"   -> [a EXCEPT !.new = "attached"]
      [] call = "DeleteInstance"   -> [a EXCEPT !.instance = "absent"]
      [] OTHER                     -> a

\* a call that failed stays in `failed` until a call of the same kind succeeds
Record(f, call, out) == IF out = Nil THEN f \ {call} ELSE f \cup {call}

NoObs == [found |-> FALSE, detachOk |-> FALSE, waited |-> FALSE,
          releaseOk |-> FALSE, goneErr |-> FALSE]
NoSr == [actionName |-> "", retries |-> 0, baseSleep |-> 0, i |-> 0, last |-> Nil]
NoSrObs == [given |-> 0, calls |-> 0, succeeded |-> FALSE, afterSuccess |-> 0,
            lastResult |-> Nil, slept |-> <<>>, running |-> FALSE]
NoResult == [val |-> "", err |-> Nil]
NotReturned == [val |-> "", err |-> Nil, returned |-> FALSE]

InitAws ==
    /\ op = "none"
    /\ pc = "idle"
    /\ retTo = ""
    /\ dpRet = ""
    /\ sr = NoSr
    /\ srErr = Nil
    /\ srObs = NoSrObs
    /\ aws \in [old : {"attached", "none"}, new : {"none"},
                instance : {"dualstack", "ipv6only", "absent"}]
    /\ calls = NoCalls
    /\ failed = {}
    /\ oldName = ""
    /\ ok = FALSE
    /\ elapsed = 0
    /\ obs = NoObs
    /\ dpResult = NotReturned
    /\ result = NoResult
    /\ fusedMulAdd \in BOOLEAN

\* the sleeps of every call site and attempt, computed once
SleepTable ==
    [f \in BOOLEAN |-> [b \in BaseSleeps |-> [i \in 0..ReleaseRetries |->
        BackoffSleep(b, i, f)]]]

\* the call of SafeRetry(actionName, retries, baseSleep, fn) up to its loop
SafeRetryEnter(actionName, retries, baseSleep, ret) ==
    /\ sr' = [actionName |-> actionName, retries |-> Attempts(retries),
              baseSleep |-> baseSleep, i |-> 0, last |-> Nil]
    /\ srObs' = [NoSrObs EXCEPT !.given = retries, !.running = TRUE]
    /\ retTo' = ret
    /\ pc' = "sr_loop"

\* one iteration of the loop up to the sleep: i < retries, fn() is called
SafeRetryAttempt ==
    /\ pc = "sr_loop"
    /\ sr.i < sr.retries
    /\ \E out \in SdkOutcomes :
          /\ calls' = IF sr.actionName \in Mutating
                      THEN [calls EXCEPT ![sr.actionName] = @ + 1] ELSE calls
          /\ failed' = IF sr.actionName \in Mutating
                       THEN Record(failed, sr.actionName, out) ELSE failed
          /\ srObs' = [srObs EXCEPT !.calls = @ + 1,
                                    !.afterSuccess = IF srObs.succeeded THEN @ + 1 ELSE @,
                                    !.succeeded = @ \/ out = Nil,
                                    !.lastResult = out,
                                    !.running = out # Nil]
          /\ IF out = Nil
             THEN /\ aws' = SdkEffect(aws, sr.actionName)
                  /\ obs' = [obs EXCEPT
                               !.detachOk = @ \/ sr.actionName = "DetachStaticIp",
                               !.releaseOk = @ \/ sr.actionName = "ReleaseStaticIp"]
                  /\ srErr' = Nil
                  /\ pc' = retTo
                  /\ sr' = sr
             ELSE /\ sr' = [sr EXCEPT !.last = out]
                  /\ pc' = "sr_sleep"
                  /\ UNCHANGED <<aws, obs, srErr>>
    /\ UNCHANGED <<op, retTo, dpRet, oldName, ok, elapsed, dpResult, result, fusedMulAdd, notAws>>

\* time.Sleep(...) after a failed attempt, then i++
SafeRetrySleep ==
    /\ pc = "sr_sleep"
    /\ srObs' = [srObs EXCEPT
                   !.slept = Append(@, SleepTable[fusedMulAdd][sr.baseSleep][sr.i])]
    /\ sr' = [sr EXCEPT !.i = @ + 1]
    /\ pc' = "sr_loop"
    /\ UNCHANGED <<op, retTo, dpRet, srErr, aws, calls, failed, oldName, ok, elapsed,
                   obs, dpResult, result, fusedMulAdd, notAws>>

\* the loop ends with i = retries: the last error is returned wrapped
SafeRetryGiveUp ==
    /\ pc = "sr_loop"
    /\ sr.i >= sr.retries
    /\ srErr' = SafeRetryFailure(sr.actionName, sr.last)
    /\ srObs' = [srObs EXCEPT !.running = FALSE]
    /\ pc' = retTo
    /\ UNCHANGED <<op, retTo, dpRet, sr, aws, calls, failed, oldName, ok, elapsed,
                   obs, dpResult, result, fusedMulAdd, notAws>>


\* SafeRetry's frame is gone once its caller has taken the returned error
LeaveSafeRetry ==
    /\ sr' = NoSr
    /\ srObs' = NoSrObs
    /\ srErr' = Nil
    /\ retTo' = ""

\* return of an exported function
Return(val, err) ==
    /\ result' = [val |-> val, err |-> err]
    /\ pc' = "done"

\* return of DeletePreviousStaticIPOnlyForInstance to its caller
ReturnDeletePrevious(name, err) ==
    /\ dpResult' = [val |-> name, err |-> err, returned |-> TRUE]
    /\ CASE dpRet = "top"    -> Return(name, err)
         [] dpRet = "swap"   -> pc' = "sw_Allocate" /\ result' = result
         [] dpRet = "delete" -> pc' = "del_DeleteInstance" /\ result' = result

\* a direct call SafeRetry(actionName, retries, baseSleep, fn)
CallSafeRetry ==
    /\ pc = "idle"
    /\ op' = "SafeRetry"
    /\ \E r \in RetryInputs, b \in BaseSleeps : SafeRetryEnter("fn", r, b, "sr_Return")
    /\ UNCHANGED <<dpRet, srErr, aws, calls, failed, oldName, ok, elapsed, obs,
                   dpResult, result, fusedMulAdd, notAws>>

SafeRetryReturn ==
    /\ pc = "sr_Return"
    /\ Return("", srErr)
    /\ LeaveSafeRetry
    /\ UNCHANGED <<op, dpRet, aws, calls, failed, oldName, ok, elapsed, obs, dpResult,
                   fusedMulAdd, notAws>>

CallListInstances ==
    /\ pc = "idle"
    /\ op' = "ListInstances"
    /\ pc' = "li_GetInstances"
    /\ UNCHANGED <<retTo, dpRet, sr, srErr, srObs, aws, calls, failed, oldName, ok,
                   elapsed, obs, dpResult, result, fusedMulAdd, notAws>>

\* cli.GetInstances; its error is returned wrapped
ListGetInstances ==
    /\ pc = "li_GetInstances"
    /\ \E out \in SdkOutcomes :
          /\ failed' = Record(failed, "GetInstances", out)
          /\ IF out # Nil
             THEN Return("", WrapError("ListInstances", out))
             ELSE pc' = "li_GetStaticIps" /\ result' = result
    /\ UNCHANGED <<op, retTo, dpRet, sr, srErr, srObs, aws, calls, oldName, ok,
                   elapsed, obs, dpResult, fusedMulAdd, notAws>>

\* sipOut, _ := cli.GetStaticIps; the list is returned either way
ListGetStaticIps ==
    /\ pc = "li_GetStaticIps"
    /\ \E out \in SdkOutcomes :
          /\ failed' = Record(failed, "GetStaticIps", out)
          /\ Return("list", Nil)
    /\ UNCHANGED <<op, retTo, dpRet, sr, srErr, srObs, aws, calls, oldName, ok,
                   elapsed, obs, dpResult, fusedMulAdd, notAws>>

CallDeletePrevious ==
    /\ pc = "idle"
    /\ op' = "DeletePreviousStaticIPOnlyForInstance"
    /\ dpRet' = "top"
    /\ pc' = "dp_Find"
    /\ UNCHANGED <<retTo, sr, srErr, srObs, aws, calls, failed, oldName, ok,
                   elapsed, obs, dpResult, result, fusedMulAdd, notAws>>

CallDeleteInstance ==
    /\ pc = "idle"
    /\ op' = "DeleteInstanceWithStaticIPCleanup"
    /\ dpRet' = "delete"
    /\ pc' = "dp_Find"
    /\ UNCHANGED <<retTo, sr, srErr, srObs, aws, calls, failed, oldName, ok,
                   elapsed, obs, dpResult, result, fusedMulAdd, notAws>>

CallSwap ==
    /\ pc = "idle"
    /\ op' = "SwapStaticIPForInstance"
    /\ pc' = "sw_GetInstances"
    /\ UNCHANGED <<retTo, dpRet, sr, srErr, srObs, aws, calls, failed, oldName, ok,
                   elapsed, obs, dpResult, result, fusedMulAdd, notAws>>

\* the IPv6-only check: made only when GetInstances answered and lists the instance
SwapGetInstances ==
    /\ pc = "sw_GetInstances"
    /\ \E out \in SdkOutcomes :
          /\ failed' = Record(failed, "GetInstances", out)
          /\ IF out = Nil /\ aws.instance = "ipv6only"
             THEN /\ Return("", <<"NoPublicIPv4">>)
                  /\ dpRet' = dpRet
             ELSE /\ dpRet' = "swap"
                  /\ pc' = "dp_Find"
                  /\ result' = result
    /\ UNCHANGED <<op, retTo, sr, srErr, srObs, aws, calls, oldName, ok,
                   elapsed, obs, dpResult, fusedMulAdd, notAws>>

\* the name FindAttachedStaticIPName returns: "" on an error of GetStaticIps
AttachedName(out, a) == IF out = Nil /\ a.old = "attached" THEN "old" ELSE ""

\* oldName, _ := FindAttachedStaticIPName; "" returns ("", nil), else detach is retried
DeletePreviousFind ==
    /\ pc = "dp_Find"
    /\ \E out \in SdkOutcomes :
          /\ failed' = Record(failed, "GetStaticIps", out)
          /\ oldName' = AttachedName(out, aws)
          /\ obs' = [obs EXCEPT !.found = oldName' # ""]
          /\ IF oldName' = ""
             THEN /\ ReturnDeletePrevious("", Nil)
                  /\ UNCHANGED <<sr, srObs, retTo>>
             ELSE /\ SafeRetryEnter("DetachStaticIp", DetachRetries, BaseSleepMs,
                                    "dp_AfterDetach")
                  /\ UNCHANGED <<dpResult, result>>
    /\ UNCHANGED <<op, dpRet, srErr, aws, calls, ok, elapsed, fusedMulAdd, notAws>>

\* detach failed: return its error; else WaitStaticIPDetached computes its deadline
DeletePreviousAfterDetach ==
    /\ pc = "dp_AfterDetach"
    /\ IF srErr # Nil
       THEN ReturnDeletePrevious("", srErr) /\ elapsed' = elapsed
       ELSE /\ elapsed' = 0
            /\ pc' = "wait_Poll"
            /\ UNCHANGED <<dpResult, result>>
    /\ LeaveSafeRetry
    /\ UNCHANGED <<op, dpRet, aws, calls, failed, oldName, ok, obs, fusedMulAdd, notAws>>

\* what GetStaticIp can show of the old static IP: an error, or its attachment,
\* which lags behind a detach that succeeded
StaticIpViews(a) ==
    {"error", "attached"} \cup (IF a.old = "detached" THEN {"detached"} ELSE {})

\* one round of WaitStaticIPDetached's loop
WaitStaticIPDetached ==
    /\ pc = "wait_Poll"
    /\ IF elapsed >= DetachTimeout
       THEN /\ ok' = FALSE
            /\ pc' = "dp_AfterWait"
            /\ elapsed' = 0
       ELSE \E view \in StaticIpViews(aws) :
               IF view = "attached"
               THEN /\ elapsed' = elapsed + PollSleep
                    /\ UNCHANGED <<ok, pc>>
               ELSE /\ ok' = TRUE
                    /\ pc' = "dp_AfterWait"
                    /\ elapsed' = 0
    /\ obs' = [obs EXCEPT !.waited = pc' = "dp_AfterWait"]
    /\ UNCHANGED <<op, retTo, dpRet, sr, srErr, srObs, aws, calls, failed, oldName,
                   dpResult, result, fusedMulAdd, notAws>>

\* a timed-out wait returns an error; else release is retried
DeletePreviousAfterWait ==
    /\ pc = "dp_AfterWait"
    /\ IF ~ok
       THEN /\ ReturnDeletePrevious("", <<"DetachTimeout", oldName>>)
            /\ UNCHANGED <<sr, srObs, retTo>>
       ELSE /\ SafeRetryEnter("ReleaseStaticIp", ReleaseRetries, ReleaseBaseSleepMs,
                              "dp_AfterRelease")
            /\ UNCHANGED <<dpResult, result>>
    /\ UNCHANGED <<op, dpRet, srErr, aws, calls, failed, oldName, ok, elapsed, obs,
                   fusedMulAdd, notAws>>

\* release failed: return its error; else the wait-deleted loop computes its deadline
DeletePreviousAfterRelease ==
    /\ pc = "dp_AfterRelease"
    /\ IF srErr # Nil
       THEN ReturnDeletePrevious("", srErr) /\ elapsed' = elapsed
       ELSE /\ elapsed' = 0
            /\ pc' = "gone_Poll"
            /\ UNCHANGED <<dpResult, result>>
    /\ LeaveSafeRetry
    /\ UNCHANGED <<op, dpRet, aws, calls, failed, oldName, ok, obs, fusedMulAdd, notAws>>

\* one round of the wait-deleted loop: an error of GetStaticIp counts as gone
WaitDeleted ==
    /\ pc = "gone_Poll"
    /\ IF elapsed >= ReleaseTimeout
       THEN /\ ReturnDeletePrevious("", <<"StillExists", oldName>>)
            /\ elapsed' = 0
            /\ obs' = obs
       ELSE \E view \in {"error", "exists"} :
               IF view = "error"
               THEN /\ obs' = [obs EXCEPT !.goneErr = TRUE]
                    /\ ReturnDeletePrevious(oldName, Nil)
                    /\ elapsed' = 0
               ELSE /\ elapsed' = elapsed + PollSleep
                    /\ UNCHANGED <<pc, obs, dpResult, result>>
    /\ UNCHANGED <<op, retTo, dpRet, sr, srErr, srObs, aws, calls, failed, oldName, ok,
                   fusedMulAdd, notAws>>

\* the result of the cleanup is dropped; AllocateStaticIp is retried
SwapAllocate ==
    /\ pc = "sw_Allocate"
    /\ SafeRetryEnter("AllocateStaticIp", AllocateRetries, BaseSleepMs, "sw_AfterAllocate")
    /\ UNCHANGED <<op, dpRet, srErr, aws, calls, failed, oldName, ok, elapsed, obs,
                   dpResult, result, fusedMulAdd, notAws>>

SwapAfterAllocate ==
    /\ pc = "sw_AfterAllocate"
    /\ IF srErr # Nil
       THEN Return("", srErr) /\ LeaveSafeRetry
       ELSE /\ SafeRetryEnter("AttachStaticIp", AttachRetries, BaseSleepMs, "sw_AfterAttach")
            /\ srErr' = Nil
            /\ result' = result
    /\ UNCHANGED <<op, dpRet, aws, calls, failed, oldName, ok, elapsed, obs,
                   dpResult, fusedMulAdd, notAws>>

SwapAfterAttach ==
    /\ pc = "sw_AfterAttach"
    /\ Return("", srErr)
    /\ LeaveSafeRetry
    /\ UNCHANGED <<op, dpRet, aws, calls, failed, oldName, ok, elapsed, obs, dpResult,
                   fusedMulAdd, notAws>>

\* the result of the cleanup is dropped; DeleteInstance is retried
DeleteInstanceRetry ==
    /\ pc = "del_DeleteInstance"
    /\ SafeRetryEnter("DeleteInstance", DeleteRetries, BaseSleepMs, "del_Return")
    /\ UNCHANGED <<op, dpRet, srErr, aws, calls, failed, oldName, ok, elapsed, obs,
                   dpResult, result, fusedMulAdd, notAws>>

DeleteInstanceReturn ==
    /\ pc = "del_Return"
    /\ Return("", srErr)
    /\ LeaveSafeRetry
    /\ UNCHANGED <<op, dpRet, aws, calls, failed, oldName, ok, elapsed, obs, dpResult,
                   fusedMulAdd, notAws>>

NextAws ==
    \/ CallSafeRetry \/ SafeRetryAttempt \/ SafeRetrySleep \/ SafeRetryGiveUp
    \/ SafeRetryReturn
    \/ CallListInstances \/ ListGetInstances \/ ListGetStaticIps
    \/ CallDeletePrevious \/ DeletePreviousFind \/ DeletePreviousAfterDetach
    \/ WaitStaticIPDetached \/ DeletePreviousAfterWait \/ DeletePreviousAfterRelease
    \/ WaitDeleted
    \/ CallSwap \/ SwapGetInstances \/ SwapAllocate \/ SwapAfterAllocate \/ SwapAfterAttach
    \/ CallDeleteInstance \/ DeleteInstanceRetry \/ DeleteInstanceReturn

(***************************************************************************)
(* sanitize (internal/aws/lightsail.go). A string is the sequence of its   *)
(* code points.                                                            *)
(***************************************************************************)
\* input length of the enumerated arguments
MaxLen == 3

\* '-' '0' '@' 'A' 'X' 'Z' 'x' 'z' '{' and the Kelvin sign, whose lower case is 'k'
Alphabet == {45, 48, 64, 65, 88, 90, 120, 122, 123, 8490}

\* the inputs of TestSanitize: "My-Instance", "Name@123", "!!!"
TestInputs == { <<77, 121, 45, 73, 110, 115, 116, 97, 110, 99, 101>>,
                <<78, 97, 109, 101, 64, 49, 50, 51>>,
                <<33, 33, 33>> }

SanitizeInputs == UNION {[1..n -> Alphabet] : n \in 0..MaxLen} \cup TestInputs

\* unicode.ToLower on the code points used here
ToLower(r) == IF r >= 65 /\ r <= 90 THEN r + 32
              ELSE IF r = 8490 THEN 107
              ELSE r

\* strings.ToLower
StringsToLower(s) == [k \in 1..Len(s) |-> ToLower(s[k])]

\* the range loop: b.WriteRune(r) for every rune that passes the test
RECURSIVE WriteRunes(_, _)
WriteRunes(s, b) ==
    IF s = <<>> THEN b
    ELSE LET r == Head(s)
         IN  WriteRunes(Tail(s),
                 IF (r >= 97 /\ r <= 122) \/ (r >= 48 /\ r <= 57) \/ r = 45
                 THEN Append(b, r) ELSE b)

\* sanitize without its fallback for an empty result
sanitizeNoFallback(s) == WriteRunes(StringsToLower(s), <<>>)

sanitize(s) ==
    LET out == WriteRunes(StringsToLower(s), <<>>)
    IN  IF out = <<>> THEN <<120>> ELSE out

ParkSanitize ==
    /\ sanIn = <<>>
    /\ sanOut = <<>>
    /\ sanAgain = <<>>
    /\ sanPc = "in"

InitSanitize ==
    /\ sanIn \in SanitizeInputs
    /\ sanOut = <<>>
    /\ sanAgain = <<>>
    /\ sanPc = "in"

\* out := sanitize(in)
Sanitize ==
    /\ sanPc = "in"
    /\ sanOut' = sanitize(sanIn)
    /\ sanPc' = "out"
    /\ UNCHANGED <<sanIn, sanAgain, notSanitize>>

\* sanitize applied to its own result
SanitizeAgain ==
    /\ sanPc = "out"
    /\ sanAgain' = sanitize(sanOut)
    /\ sanPc' = "again"
    /\ UNCHANGED <<sanIn, sanOut, notSanitize>>

NextSanitize == Sanitize \/ SanitizeAgain

(***************************************************************************)
(* The api_keys table (internal/store/db.go). A string is the sequence of  *)
(* its characters.                                                         *)
(***************************************************************************)
\* largest id the table gives out
MaxKeys == 3

UserIds == {1, 2}
KeyIds == 0..MaxKeys
Names == {<<>>, <<"n">>}
AccessKeys == {<<" ">>, <<"a">>}
SecretKeys == {<<>>, <<"s">>}
Proxies == {<<"p">>}

\* what the database driver can answer instead of running a statement
DbErrors == {<<"database is locked">>}
DbOutcomes == {Nil} \cup DbErrors

\* time.Now().Format("2006-01-02 15:04")
TimeName == <<"2", "0", "0", "6">>

IsSpace(c) == c \in {" ", "\t", "\n", "\r"}

RECURSIVE TrimLeft(_)
TrimLeft(s) == IF s # <<>> /\ IsSpace(Head(s)) THEN TrimLeft(Tail(s)) ELSE s

RECURSIVE TrimRight(_)
TrimRight(s) ==
    IF s # <<>> /\ IsSpace(s[Len(s)]) THEN TrimRight(SubSeq(s, 1, Len(s) - 1)) ELSE s

\* strings.TrimSpace
TrimSpace(s) == TrimRight(TrimLeft(s))

\* WHERE id = ? with the owner left out
KeyMatchesAnyOwner(id, row, keyID, userID) == id = keyID

\* WHERE id = ? AND user_id = ?
KeyMatches(id, row, keyID, userID) == id = keyID /\ row.user_id = userID

\* WHERE user_id = ? ORDER BY id DESC, scanned into []Key
RECURSIVE SelectKeys(_, _, _)
SelectKeys(table, userID, id) ==
    IF id < 1 THEN <<>>
    ELSE (IF id \in DOMAIN table /\ table[id].user_id = userID
          THEN << [ID |-> id, UserID |-> table[id].user_id, Name |-> table[id].name,
                   AccessKey |-> table[id].access_key, SecretKey |-> table[id].secret_key,
                   Proxy |-> table[id].proxy] >>
          ELSE <<>>) \o SelectKeys(table, userID, id - 1)

\* a function with one more, or one changed, argument
Put(f, k, v) == [x \in DOMAIN f \cup {k} |-> IF x = k THEN v ELSE f[x]]

\* a function without the arguments in ks
Drop(f, ks) == [x \in DOMAIN f \ ks |-> f[x]]

NoKeyCall == [fn |-> "none", userID |-> 0, keyID |-> 0]
NoKeyRet == [keys |-> <<>>, id |-> 0, err |-> Nil]

InitKeys ==
    /\ api_keys = <<>>
    /\ keySeq = 0
    /\ keyCall = NoKeyCall
    /\ keyRet = NoKeyRet

ListKeys ==
    \E userID \in UserIds, dbErr \in DbOutcomes :
        /\ keyCall' = [fn |-> "ListKeys", userID |-> userID, keyID |-> 0]
        /\ keyRet' = IF dbErr # Nil
                     THEN [NoKeyRet EXCEPT !.err = dbErr]
                     ELSE [NoKeyRet EXCEPT !.keys = SelectKeys(api_keys, userID, keySeq)]
        /\ UNCHANGED <<api_keys, keySeq, notKeys>>

CreateKey ==
    \E userID \in UserIds, name \in Names, accessKey \in AccessKeys,
       secretKey \in SecretKeys, proxy \in Proxies, dbErr \in DbOutcomes :
        /\ keySeq < MaxKeys
        /\ keyCall' = [fn |-> "CreateKey", userID |-> userID, keyID |-> 0]
        /\ IF TrimSpace(accessKey) = <<>> \/ TrimSpace(secretKey) = <<>>
           THEN /\ keyRet' = [NoKeyRet EXCEPT !.err = <<"missing key values">>]
                /\ UNCHANGED <<api_keys, keySeq>>
           ELSE IF dbErr # Nil
           THEN /\ keyRet' = [NoKeyRet EXCEPT !.err = dbErr]
                /\ UNCHANGED <<api_keys, keySeq>>
           ELSE /\ api_keys' = Put(api_keys, keySeq + 1,
                                   [user_id |-> userID,
                                    name |-> IF TrimSpace(name) = <<>> THEN TimeName
                                             ELSE name,
                                    access_key |-> accessKey, secret_key |-> secretKey,
                                    proxy |-> proxy])
                /\ keySeq' = keySeq + 1
                /\ keyRet' = [NoKeyRet EXCEPT !.id = keySeq + 1]
        /\ UNCHANGED notKeys

DeleteKey ==
    \E userID \in UserIds, keyID \in KeyIds, dbErr \in DbOutcomes :
        /\ keyCall' = [fn |-> "DeleteKey", userID |-> userID, keyID |-> keyID]
        /\ IF keyID = 0
           THEN /\ keyRet' = NoKeyRet
                /\ UNCHANGED api_keys
           ELSE IF dbErr # Nil
           THEN /\ keyRet' = [NoKeyRet EXCEPT !.err = dbErr]
                /\ UNCHANGED api_keys
           ELSE /\ api_keys' = Drop(api_keys, {id \in DOMAIN api_keys :
                                       KeyMatches(id, api_keys[id], keyID, userID)})
                /\ keyRet' = NoKeyRet
        /\ UNCHANGED <<keySeq, notKeys>>

UpdateKey ==
    \E userID \in UserIds, keyID \in KeyIds, name \in Names, accessKey \in AccessKeys,
       secretKey \in SecretKeys, proxy \in Proxies, dbErr \in DbOutcomes :
        /\ keyCall' = [fn |-> "UpdateKey", userID |-> userID, keyID |-> keyID]
        /\ IF keyID = 0
           THEN /\ keyRet' = [NoKeyRet EXCEPT !.err = <<"missing key id">>]
                /\ UNCHANGED api_keys
           ELSE IF TrimSpace(accessKey) = <<>> \/ TrimSpace(secretKey) = <<>>
           THEN /\ keyRet' = [NoKeyRet EXCEPT !.err = <<"missing key values">>]
                /\ UNCHANGED api_keys
           ELSE IF dbErr # Nil
           THEN /\ keyRet' = [NoKeyRet EXCEPT !.err = dbErr]
                /\ UNCHANGED api_keys
           ELSE /\ api_keys' =
                      [id \in DOMAIN api_keys |->
                          IF KeyMatches(id, api_keys[id], keyID, userID)
                          THEN [api_keys[id] EXCEPT
                                  !.name = IF TrimSpace(name) = <<>> THEN TimeName
                                           ELSE name,
                                  !.access_key = accessKey,
                                  !.secret_key = secretKey,
                                  !.proxy = proxy]
                          ELSE api_keys[id]]
                /\ keyRet' = NoKeyRet
        /\ UNCHANGED <<keySeq, notKeys>>

NextKeys == ListKeys \/ CreateKey \/ DeleteKey \/ UpdateKey

(***************************************************************************)
(* The users table and EnsureUser, called by concurrent goroutines         *)
(***************************************************************************)
Callers == {"c1", "c2"}
Usernames == {<<>>, <<"a">>, <<" ", "a">>, <<"b">>}

\* bcrypt keys the hash with the first 72 bytes of the password and its terminating NUL
BcryptKeyLen == 72

\* a password that fills the key, and one that is longer by a character
LongPassword == [i \in 1..BcryptKeyLen |-> "p"]
LongerPassword == Append(LongPassword, "x")

\* the passwords given to EnsureUser: every version of bcrypt.GenerateFromPassword
\* accepts them
Passwords == {<<" ">>, <<"p">>, LongPassword}

\* the usernames and the passwords given to AuthenticateUser
AuthUsernames == {<<" ", "a">>, <<"b">>}
AuthPasswords == Passwords \cup {LongerPassword}

UniqueError == <<"UNIQUE constraint failed: users.username">>

\* the UNIQUE constraint of users.username switched off
UniqueViolationNever(table, username) == FALSE

\* username TEXT NOT NULL UNIQUE: the insert of a username the table holds is refused
UniqueViolation(table, username) ==
    \E k \in 1..Len(table) : table[k].username = username

\* a lookup that finds no row
UserExistsNever(table, username) == FALSE

\* SELECT id FROM users WHERE username = ? LIMIT 1 finds a row
UserExists(table, username) ==
    \E k \in 1..Len(table) : table[k].username = username

\* the key bcrypt derives the hash from
BcryptKey(password) ==
    LET key == Append(password, "NUL")
    IN  SubSeq(key, 1, IF Len(key) < BcryptKeyLen THEN Len(key) ELSE BcryptKeyLen)

\* bcrypt.GenerateFromPassword; the salt is left out
PasswordHash(password) == [bcrypt |-> BcryptKey(password)]

\* bcrypt.CompareHashAndPassword(hash, password) = nil
CompareHashAndPassword(hash, password) == hash.bcrypt = BcryptKey(password)

NoArg == [username |-> <<>>, password |-> <<>>]
NoUserRet == [created |-> FALSE, err |-> Nil, returned |-> FALSE]
UserRet(created, err) == [created |-> created, err |-> err, returned |-> TRUE]

\* no AuthenticateUser call yet
NoAuth == [username |-> <<>>, password |-> <<>>, user |-> <<>>, err |-> Nil,
           returned |-> FALSE]

\* return of AuthenticateUser: user holds the *User, and nothing when it is nil
AuthRet(username, password, user, err) ==
    [username |-> username, password |-> password, user |-> user, err |-> err,
     returned |-> TRUE]

InitUsers ==
    /\ users = <<>>
    /\ upc = [c \in Callers |-> "idle"]
    /\ uarg = [c \in Callers |-> NoArg]
    /\ uret = [c \in Callers |-> NoUserRet]
    /\ createdTrue = [n \in {TrimSpace(u) : u \in Usernames} |-> 0]
    /\ createdWith = [n \in {TrimSpace(u) : u \in Usernames} |-> <<>>]
    /\ auth = NoAuth

\* return of EnsureUser
EnsureUserReturn(c, created, err) ==
    /\ uret' = [uret EXCEPT ![c] = UserRet(created, err)]
    /\ upc' = [upc EXCEPT ![c] = "idle"]

\* the call up to the SELECT: both arguments are trimmed and must not be empty
EnsureUserCall(c) ==
    /\ upc[c] = "idle"
    /\ \E username \in Usernames, password \in Passwords :
          IF TrimSpace(username) = <<>> \/ TrimSpace(password) = <<>>
          THEN /\ EnsureUserReturn(c, FALSE, <<"username/password required">>)
               /\ uarg' = [uarg EXCEPT ![c] = NoArg]
          ELSE /\ uarg' = [uarg EXCEPT ![c] = [username |-> TrimSpace(username),
                                               password |-> TrimSpace(password)]]
               /\ upc' = [upc EXCEPT ![c] = "select"]
               /\ uret' = [uret EXCEPT ![c] = NoUserRet]
    /\ UNCHANGED <<users, createdTrue, createdWith, auth, notUsers>>

\* the existence check
EnsureUserSelect(c) ==
    /\ upc[c] = "select"
    /\ \E dbErr \in DbOutcomes :
          IF dbErr # Nil THEN EnsureUserReturn(c, FALSE, dbErr)
          ELSE IF UserExists(users, uarg[c].username)
          THEN EnsureUserReturn(c, FALSE, Nil)
          ELSE /\ upc' = [upc EXCEPT ![c] = "insert"]
               /\ UNCHANGED uret
    /\ UNCHANGED <<users, uarg, createdTrue, createdWith, auth, notUsers>>

\* the hash and the INSERT
EnsureUserInsert(c) ==
    /\ upc[c] = "insert"
    /\ \E dbErr \in DbOutcomes :
          IF dbErr # Nil
          THEN /\ EnsureUserReturn(c, FALSE, dbErr)
               /\ UNCHANGED <<users, createdTrue, createdWith>>
          ELSE IF UniqueViolation(users, uarg[c].username)
          THEN /\ EnsureUserReturn(c, FALSE, UniqueError)
               /\ UNCHANGED <<users, createdTrue, createdWith>>
          ELSE /\ users' = Append(users, [id |-> Len(users) + 1,
                                          username |-> uarg[c].username,
                                          password_hash |-> PasswordHash(uarg[c].password)])
               /\ createdTrue' = [createdTrue EXCEPT ![uarg[c].username] = @ + 1]
               /\ createdWith' = [createdWith EXCEPT ![uarg[c].username] = uarg[c].password]
               /\ EnsureUserReturn(c, TRUE, Nil)
    /\ UNCHANGED <<uarg, auth, notUsers>>

\* AuthenticateUser(ctx, username, password): one SELECT and the comparison
AuthenticateUser ==
    /\ \E username \in AuthUsernames, password \in AuthPasswords, dbErr \in DbOutcomes :
          LET u == TrimSpace(username)
              p == TrimSpace(password)
              rows == SelectSeq(users, LAMBDA r : r.username = u)
          IN  auth' =
                 IF u = <<>> \/ p = <<>>
                 THEN AuthRet(u, p, <<>>, <<"missing credentials">>)
                 ELSE IF dbErr # Nil THEN AuthRet(u, p, <<>>, dbErr)
                 ELSE IF rows = <<>> THEN AuthRet(u, p, <<>>, <<"user not found">>)
                 ELSE IF ~CompareHashAndPassword(rows[1].password_hash, p)
                 THEN AuthRet(u, p, <<>>, <<"invalid password">>)
                 ELSE AuthRet(u, p, <<rows[1]>>, Nil)
    /\ UNCHANGED <<users, upc, uarg, uret, createdTrue, createdWith, notUsers>>

NextUsers ==
    \/ \E c \in Callers : EnsureUserCall(c) \/ EnsureUserSelect(c) \/ EnsureUserInsert(c)
    \/ AuthenticateUser

(***************************************************************************)
(* The session store (internal/session/session.go): handler goroutines     *)
(* and the cleanupLoop goroutine. Store.mu is held over several steps and  *)
(* is a variable; a Session method holds Session.mu over straight-line     *)
(* code that takes no other lock, so its critical section is one step.     *)
(* Time is in minutes.                                                     *)
(***************************************************************************)
ttl == 30
cleanupInterval == 5

\* the clock stops here
MaxTime == 35

SessionIds == {"s1", "s2"}
Handlers == {"h1", "h2"}
Sweeper == "cleanupLoop"

\* a nil *Session
NoRef == <<>>

EmptyMap == [x \in {} |-> 0]

\* t.Before(u) that never holds
BeforeNever(t, u) == FALSE

\* t.Before(u)
Before(t, u) == t < u

\* the Session objects the garbage collector keeps
Collect(hp, m, refs) ==
    [o \in DOMAIN hp \cap ({m[id] : id \in DOMAIN m} \cup {refs[h] : h \in Handlers}) |->
        hp[o]]

\* what the running cleanupExpired met when it started: the time and the map
NoSweep == [running |-> FALSE, start |-> 0, atStart |-> EmptyMap]

InitSession ==
    /\ now = 0
    /\ tickDue = FALSE
    /\ stMu = "free"
    /\ stm = EmptyMap
    /\ heap = EmptyMap
    /\ gen = [id \in SessionIds |-> 0]
    /\ hpc = [h \in Handlers |-> "idle"]
    /\ hid = [h \in Handlers |-> ""]
    /\ href = [h \in Handlers |-> NoRef]
    /\ spc = "wait"
    /\ expiredBefore = 0
    /\ todo = {}
    /\ cur = ""
    /\ curLast = 0
    /\ requested = {}
    /\ sweepObs = NoSweep

\* time passes by one ticker period; the ticker's channel holds one tick. A critical
\* section under Store.mu and a run of cleanupExpired are short against that period:
\* time does not pass inside them.
Tick ==
    /\ now + cleanupInterval <= MaxTime
    /\ stMu = "free"
    /\ spc = "wait"
    /\ now' = now + cleanupInterval
    /\ tickDue' = TRUE
    /\ UNCHANGED <<stMu, stm, heap, gen, hpc, hid, href, spc, expiredBefore, todo, cur,
                   curLast, requested, sweepObs, notSession>>

\* GetOrCreate(id) up to st.mu.Lock()
GetOrCreateLock(h) ==
    /\ hpc[h] = "idle"
    /\ stMu = "free"
    /\ \E id \in SessionIds :
          /\ hid' = [hid EXCEPT ![h] = id]
          /\ requested' = requested \cup {id}
    /\ stMu' = h
    /\ hpc' = [hpc EXCEPT ![h] = "GetOrCreate"]
    /\ UNCHANGED <<now, tickDue, stm, heap, gen, href, spc, expiredBefore, todo, cur,
                   curLast, sweepObs, notSession>>

\* a lookup that finds nothing
HasNever(m, id) == FALSE

\* ok of `s, ok := st.m[id]`
Has(m, id) == id \in DOMAIN m

\* the body of GetOrCreate and the deferred st.mu.Unlock()
GetOrCreateBody(h) ==
    /\ hpc[h] = "GetOrCreate"
    /\ IF Has(stm, hid[h])
       THEN /\ heap' = [heap EXCEPT ![stm[hid[h]]].lastAccess = now]
            /\ href' = [href EXCEPT ![h] = stm[hid[h]]]
            /\ UNCHANGED <<stm, gen>>
       ELSE LET s == <<hid[h], gen[hid[h]] + 1>>
            IN  /\ gen' = [gen EXCEPT ![hid[h]] = @ + 1]
                /\ heap' = Put(heap, s, [lastAccess |-> now, m |-> {}])
                /\ stm' = Put(stm, hid[h], s)
                /\ href' = [href EXCEPT ![h] = s]
    /\ stMu' = "free"
    /\ hid' = [hid EXCEPT ![h] = ""]
    /\ hpc' = [hpc EXCEPT ![h] = "handling"]
    /\ UNCHANGED <<now, tickDue, spc, expiredBefore, todo, cur, curLast, requested,
                   sweepObs, notSession>>

\* Session.SetString("k", val) on the session the handler holds; the value written
\* is the minute of the write
SetString(h) ==
    /\ hpc[h] = "handling"
    /\ heap' = [heap EXCEPT ![href[h]] = [lastAccess |-> now, m |-> {<<"k", now>>}]]
    /\ UNCHANGED <<now, tickDue, stMu, stm, gen, hpc, hid, href, spc, expiredBefore, todo,
                   cur, curLast, requested, sweepObs, notSession>>

\* Session.GetString on the session the handler holds: the read, then touch()
GetString(h) ==
    /\ hpc[h] = "handling"
    /\ heap' = [heap EXCEPT ![href[h]].lastAccess = now]
    /\ UNCHANGED <<now, tickDue, stMu, stm, gen, hpc, hid, href, spc, expiredBefore, todo,
                   cur, curLast, requested, sweepObs, notSession>>

\* the request ends and the handler drops its *Session
HandlerDone(h) ==
    /\ hpc[h] = "handling"
    /\ hpc' = [hpc EXCEPT ![h] = "idle"]
    /\ href' = [href EXCEPT ![h] = NoRef]
    /\ heap' = Collect(heap, stm, href')
    /\ UNCHANGED <<now, tickDue, stMu, stm, gen, hid, spc, expiredBefore, todo, cur, curLast,
                   requested, sweepObs, notSession>>

\* cleanupLoop receives a tick; cleanupExpired computes expiredBefore
CleanupStart ==
    /\ spc = "wait"
    /\ tickDue
    /\ tickDue' = FALSE
    /\ expiredBefore' = now - ttl
    /\ spc' = "lock"
    /\ sweepObs' = [running |-> TRUE, start |-> now,
                    atStart |-> [id \in DOMAIN stm |->
                                    [obj |-> stm[id],
                                     lastAccess |-> heap[stm[id]].lastAccess]]]
    /\ UNCHANGED <<now, stMu, stm, heap, gen, hpc, hid, href, todo, cur, curLast,
                   requested, notSession>>

\* st.mu.Lock() and the start of the range loop
CleanupLock ==
    /\ spc = "lock"
    /\ stMu = "free"
    /\ stMu' = Sweeper
    /\ todo' = DOMAIN stm
    /\ spc' = "range"
    /\ UNCHANGED <<now, tickDue, stm, heap, gen, hpc, hid, href, expiredBefore, cur,
                   curLast, requested, sweepObs, notSession>>

\* one iteration up to the comparison: sess.LastAccess()
CleanupLastAccess ==
    /\ spc = "range"
    /\ \E id \in todo :
          /\ cur' = id
          /\ curLast' = heap[stm[id]].lastAccess
    /\ spc' = "check"
    /\ UNCHANGED <<now, tickDue, stMu, stm, heap, gen, hpc, hid, href, expiredBefore,
                   todo, requested, sweepObs, notSession>>

\* the comparison with expiredBefore and the delete
CleanupDelete ==
    /\ spc = "check"
    /\ IF Before(curLast, expiredBefore)
       THEN /\ stm' = Drop(stm, {cur})
            /\ heap' = Collect(heap, stm', href)
       ELSE UNCHANGED <<stm, heap>>
    /\ todo' = todo \ {cur}
    /\ cur' = ""
    /\ curLast' = 0
    /\ spc' = "range"
    /\ UNCHANGED <<now, tickDue, stMu, gen, hpc, hid, href, expiredBefore, requested,
                   sweepObs, notSession>>

\* the range loop is over: the deferred st.mu.Unlock()
CleanupUnlock ==
    /\ spc = "range"
    /\ todo = {}
    /\ stMu' = "free"
    /\ spc' = "wait"
    /\ expiredBefore' = 0
    /\ sweepObs' = NoSweep
    /\ UNCHANGED <<now, tickDue, stm, heap, gen, hpc, hid, href, todo, cur, curLast,
                   requested, notSession>>

NextSession ==
    \/ Tick
    \/ \E h \in Handlers : GetOrCreateLock(h) \/ GetOrCreateBody(h) \/ SetString(h)
                           \/ GetString(h) \/ HandlerDone(h)
    \/ CleanupStart \/ CleanupLock \/ CleanupLastAccess \/ CleanupDelete \/ CleanupUnlock

(***************************************************************************)
(* internal/session/session.go at the granularity of its locks             *)
(*                                                                         *)
(* Store.mu and every Session.mu are sync.RWMutex.  A RWMutex is a mutex w *)
(* that serialises the writers, and a set of readers: Lock takes w and     *)
(* then waits until the readers that were admitted before have left;       *)
(* RLock is admitted at once unless a writer holds w, and then waits for   *)
(* that writer's Unlock, which admits every waiting reader.  Only what the *)
(* locking depends on is kept: which Session an id maps to and which one a *)
(* request holds.  The outcome of LastAccess().Before(expiredBefore) is a  *)
(* choice, times and values being those of SpecSession.                    *)
(***************************************************************************)
Goroutines == Handlers \cup {Sweeper}

\* the session ids of the requests: the two requests compete for one session
LockIds == {"s1"}

\* addresses of Session objects: at most one per id in Store.m and one more per
\* request that still holds an evicted one
Addresses == 1..(Cardinality(LockIds) + Cardinality(Handlers))

\* a nil *Session
NoAddr == 0

\* no goroutine
NoOne == ""

\* the addresses no map entry, request or running call refers to
Unused(m, refs, tgts) ==
    Addresses \ ({m[id] : id \in DOMAIN m} \cup {refs[h] : h \in Handlers}
                 \cup {tgts[g] : g \in Goroutines})

\* &Session{...}: the address of a new object
New(m, refs, tgts) ==
    CHOOSE a \in Unused(m, refs, tgts) : \A b \in Unused(m, refs, tgts) : a <= b

\* a RUnlock that leaves the reader in
RUnlockMissing(readers, g) == readers

\* mu.RUnlock() by g
RUnlock(readers, g) == readers \ {g}

\* the goroutines blocked in RLock on the mutex of Session a
BlockedReaders(a) == {r \in Goroutines : lkPc[r] = "rWait" /\ lkTgt[r] = a}

InitLocks ==
    /\ lkStore = NoOne
    /\ lkW = [a \in Addresses |-> NoOne]
    /\ lkR = [a \in Addresses |-> {}]
    /\ lkMap = EmptyMap
    /\ lkRef = [h \in Handlers |-> NoAddr]
    /\ lkPc = [g \in Goroutines |-> "idle"]
    /\ lkOp = [g \in Goroutines |-> ""]
    /\ lkTgt = [g \in Goroutines |-> NoAddr]
    /\ lkId = [h \in Handlers |-> ""]
    /\ lkTodo = {}
    /\ lkCur = ""

\* a request goroutine calls st.GetOrCreate(id)
CallGetOrCreate(h) ==
    /\ lkPc[h] = "idle"
    /\ \E id \in LockIds : lkId' = [lkId EXCEPT ![h] = id]
    /\ lkOp' = [lkOp EXCEPT ![h] = "GetOrCreate"]
    /\ lkPc' = [lkPc EXCEPT ![h] = "stLock"]
    /\ UNCHANGED <<lkStore, lkW, lkR, lkMap, lkRef, lkTgt, lkTodo, lkCur, notLocks>>

\* a request goroutine calls s.GetString(key, def) on the session it holds
CallGetString(h) ==
    /\ lkPc[h] = "idle"
    /\ lkRef[h] # NoAddr
    /\ lkOp' = [lkOp EXCEPT ![h] = "GetString"]
    /\ lkTgt' = [lkTgt EXCEPT ![h] = lkRef[h]]
    /\ lkPc' = [lkPc EXCEPT ![h] = "rLock"]
    /\ UNCHANGED <<lkStore, lkW, lkR, lkMap, lkRef, lkId, lkTodo, lkCur, notLocks>>

\* a request goroutine calls s.SetString(key, val) on the session it holds
CallSetString(h) ==
    /\ lkPc[h] = "idle"
    /\ lkRef[h] # NoAddr
    /\ lkOp' = [lkOp EXCEPT ![h] = "SetString"]
    /\ lkTgt' = [lkTgt EXCEPT ![h] = lkRef[h]]
    /\ lkPc' = [lkPc EXCEPT ![h] = "wLock"]
    /\ UNCHANGED <<lkStore, lkW, lkR, lkMap, lkRef, lkId, lkTodo, lkCur, notLocks>>

\* a request goroutine calls s.LastAccess() on the session it holds
CallLastAccess(h) ==
    /\ lkPc[h] = "idle"
    /\ lkRef[h] # NoAddr
    /\ lkOp' = [lkOp EXCEPT ![h] = "LastAccess"]
    /\ lkTgt' = [lkTgt EXCEPT ![h] = lkRef[h]]
    /\ lkPc' = [lkPc EXCEPT ![h] = "rLock"]
    /\ UNCHANGED <<lkStore, lkW, lkR, lkMap, lkRef, lkId, lkTodo, lkCur, notLocks>>

\* the request ends: its *Session goes out of scope
RequestEnds(h) ==
    /\ lkPc[h] = "idle"
    /\ lkRef[h] # NoAddr
    /\ lkRef' = [lkRef EXCEPT ![h] = NoAddr]
    /\ UNCHANGED <<lkStore, lkW, lkR, lkMap, lkPc, lkOp, lkTgt, lkId, lkTodo, lkCur,
                   notLocks>>

\* the ticker fires: cleanupLoop calls cleanupExpired, which computes expiredBefore
CallCleanupExpired ==
    /\ lkPc[Sweeper] = "idle"
    /\ lkOp' = [lkOp EXCEPT ![Sweeper] = "cleanupExpired"]
    /\ lkPc' = [lkPc EXCEPT ![Sweeper] = "stLock"]
    /\ UNCHANGED <<lkStore, lkW, lkR, lkMap, lkRef, lkTgt, lkId, lkTodo, lkCur, notLocks>>

\* st.mu.Lock() returns in g; the range loop of cleanupExpired starts on the map
StoreLock(g) ==
    /\ lkPc[g] = "stLock"
    /\ lkStore = NoOne
    /\ lkStore' = g
    /\ lkPc' = [lkPc EXCEPT ![g] = "stHeld"]
    /\ lkTodo' = IF g = Sweeper THEN DOMAIN lkMap ELSE lkTodo
    /\ UNCHANGED <<lkW, lkR, lkMap, lkRef, lkOp, lkTgt, lkId, lkCur, notLocks>>

\* GetOrCreate under st.mu: the lookup, and either the call of s.touch() or the
\* creation of the Session
GetOrCreateLookup(h) ==
    /\ lkPc[h] = "stHeld"
    /\ lkOp[h] = "GetOrCreate"
    /\ IF lkId[h] \in DOMAIN lkMap
          THEN /\ lkTgt' = [lkTgt EXCEPT ![h] = lkMap[lkId[h]]]
               /\ lkPc' = [lkPc EXCEPT ![h] = "wLock"]
               /\ UNCHANGED lkMap
          ELSE /\ lkTgt' = [lkTgt EXCEPT ![h] = New(lkMap, lkRef, lkTgt)]
               /\ lkMap' = Put(lkMap, lkId[h], New(lkMap, lkRef, lkTgt))
               /\ lkPc' = [lkPc EXCEPT ![h] = "stUnlock"]
    /\ UNCHANGED <<lkStore, lkW, lkR, lkRef, lkOp, lkId, lkTodo, lkCur, notLocks>>

\* s.mu.Lock(), first half: g gets the writers' mutex of the session
SessionLock(g) ==
    /\ lkPc[g] = "wLock"
    /\ lkW[lkTgt[g]] = NoOne
    /\ lkW' = [lkW EXCEPT ![lkTgt[g]] = g]
    /\ lkPc' = [lkPc EXCEPT ![g] = "wDrain"]
    /\ UNCHANGED <<lkStore, lkR, lkMap, lkRef, lkOp, lkTgt, lkId, lkTodo, lkCur, notLocks>>

\* s.mu.Lock(), second half: the readers admitted before have left, Lock returns
SessionLockReturns(g) ==
    /\ lkPc[g] = "wDrain"
    /\ lkR[lkTgt[g]] = {}
    /\ lkPc' = [lkPc EXCEPT ![g] = "wHeld"]
    /\ UNCHANGED <<lkStore, lkW, lkR, lkMap, lkRef, lkOp, lkTgt, lkId, lkTodo, lkCur,
                   notLocks>>

\* the critical section of SetString or touch, and s.mu.Unlock(): the readers that
\* waited for it are admitted. touch returns to GetOrCreate or ends GetString.
SessionUnlock(g) ==
    /\ lkPc[g] = "wHeld"
    /\ lkW' = [lkW EXCEPT ![lkTgt[g]] = NoOne]
    /\ lkR' = [lkR EXCEPT ![lkTgt[g]] = BlockedReaders(lkTgt[g])]
    /\ lkPc' = [r \in Goroutines |->
                   IF r = g THEN (IF lkOp[g] = "GetOrCreate" THEN "stUnlock" ELSE "idle")
                   ELSE IF r \in BlockedReaders(lkTgt[g]) THEN "rHeld"
                   ELSE lkPc[r]]
    /\ lkTgt' = IF lkOp[g] = "GetOrCreate" THEN lkTgt ELSE [lkTgt EXCEPT ![g] = NoAddr]
    /\ lkOp' = IF lkOp[g] = "GetOrCreate" THEN lkOp ELSE [lkOp EXCEPT ![g] = ""]
    /\ UNCHANGED <<lkStore, lkMap, lkRef, lkId, lkTodo, lkCur, notLocks>>

\* s.mu.RLock(): admitted, or blocked behind the writer that holds the mutex
SessionRLock(g) ==
    /\ lkPc[g] = "rLock"
    /\ IF lkW[lkTgt[g]] = NoOne
          THEN /\ lkR' = [lkR EXCEPT ![lkTgt[g]] = @ \cup {g}]
               /\ lkPc' = [lkPc EXCEPT ![g] = "rHeld"]
          ELSE /\ lkPc' = [lkPc EXCEPT ![g] = "rWait"]
               /\ UNCHANGED lkR
    /\ UNCHANGED <<lkStore, lkW, lkMap, lkRef, lkOp, lkTgt, lkId, lkTodo, lkCur, notLocks>>

\* the read under the read lock and s.mu.RUnlock(): GetString goes on to touch,
\* LastAccess returns, to the request or to the range loop of cleanupExpired
SessionRUnlock(g) ==
    /\ lkPc[g] = "rHeld"
    /\ lkR' = [lkR EXCEPT ![lkTgt[g]] = RUnlock(@, g)]
    /\ lkPc' = [lkPc EXCEPT ![g] = CASE lkOp[g] = "GetString" -> "wLock"
                                     [] lkOp[g] = "LastAccess" -> "idle"
                                     [] OTHER -> "delete"]
    /\ lkTgt' = IF lkOp[g] = "LastAccess" THEN [lkTgt EXCEPT ![g] = NoAddr] ELSE lkTgt
    /\ lkOp' = IF lkOp[g] = "LastAccess" THEN [lkOp EXCEPT ![g] = ""] ELSE lkOp
    /\ UNCHANGED <<lkStore, lkW, lkMap, lkRef, lkId, lkTodo, lkCur, notLocks>>

\* cleanupExpired: the next iteration of the range loop calls sess.LastAccess(), or
\* the loop ends
CleanupRange ==
    /\ lkPc[Sweeper] = "stHeld"
    /\ IF lkTodo = {}
          THEN /\ lkPc' = [lkPc EXCEPT ![Sweeper] = "stUnlock"]
               /\ UNCHANGED <<lkTodo, lkCur, lkTgt>>
          ELSE \E id \in lkTodo :
                  /\ lkTodo' = lkTodo \ {id}
                  /\ lkCur' = id
                  /\ lkTgt' = [lkTgt EXCEPT ![Sweeper] = lkMap[id]]
                  /\ lkPc' = [lkPc EXCEPT ![Sweeper] = "rLock"]
    /\ UNCHANGED <<lkStore, lkW, lkR, lkMap, lkRef, lkOp, lkId, notLocks>>

\* cleanupExpired: the test on what LastAccess returned, and delete(st.m, id)
CleanupTest ==
    /\ lkPc[Sweeper] = "delete"
    /\ \E expired \in BOOLEAN :
          lkMap' = IF expired THEN Drop(lkMap, {lkCur}) ELSE lkMap
    /\ lkTgt' = [lkTgt EXCEPT ![Sweeper] = NoAddr]
    /\ lkCur' = ""
    /\ lkPc' = [lkPc EXCEPT ![Sweeper] = "stHeld"]
    /\ UNCHANGED <<lkStore, lkW, lkR, lkRef, lkOp, lkId, lkTodo, notLocks>>

\* the deferred st.mu.Unlock() and the return: GetOrCreate returns the session
StoreUnlock(g) ==
    /\ lkPc[g] = "stUnlock"
    /\ lkStore' = NoOne
    /\ lkPc' = [lkPc EXCEPT ![g] = "idle"]
    /\ lkRef' = IF g \in Handlers THEN [lkRef EXCEPT ![g] = lkTgt[g]] ELSE lkRef
    /\ lkTgt' = [lkTgt EXCEPT ![g] = NoAddr]
    /\ lkOp' = [lkOp EXCEPT ![g] = ""]
    /\ lkId' = IF g \in Handlers THEN [lkId EXCEPT ![g] = ""] ELSE lkId
    /\ UNCHANGED <<lkW, lkR, lkMap, lkTodo, lkCur, notLocks>>

\* a call of a request goroutine or of the ticker
Calls ==
    \/ \E h \in Handlers : CallGetOrCreate(h) \/ CallGetString(h) \/ CallSetString(h)
                           \/ CallLastAccess(h) \/ RequestEnds(h)
    \/ CallCleanupExpired

\* the steps of g inside a call that wait for nothing
Runs(g) ==
    \/ g \in Handlers /\ GetOrCreateLookup(g)
    \/ g = Sweeper /\ (CleanupRange \/ CleanupTest)
    \/ SessionLockReturns(g) \/ SessionUnlock(g) \/ SessionRLock(g) \/ SessionRUnlock(g)
    \/ StoreUnlock(g)

NextLocks ==
    \/ Calls
    \/ \E g \in Goroutines : StoreLock(g) \/ SessionLock(g) \/ Runs(g)

(***************************************************************************)
(* Specifications                                                          *)
(***************************************************************************)
ParkAws ==
    /\ op = "none"
    /\ pc = "idle"
    /\ retTo = ""
    /\ dpRet = ""
    /\ sr = NoSr
    /\ srErr = Nil
    /\ srObs = NoSrObs
    /\ aws = [old |-> "none", new |-> "none", instance |-> "absent"]
    /\ calls = NoCalls
    /\ failed = {}
    /\ oldName = ""
    /\ ok = FALSE
    /\ elapsed = 0
    /\ obs = NoObs
    /\ dpResult = NotReturned
    /\ result = NoResult
    /\ fusedMulAdd = FALSE

InitSpecAws == InitAws /\ InitSession /\ InitKeys /\ InitUsers /\ ParkSanitize /\ InitLocks
InitSpecSession == ParkAws /\ InitSession /\ InitKeys /\ InitUsers /\ ParkSanitize /\ InitLocks
InitSpecKeys == ParkAws /\ InitSession /\ InitKeys /\ InitUsers /\ ParkSanitize /\ InitLocks
InitSpecUsers == ParkAws /\ InitSession /\ InitKeys /\ InitUsers /\ ParkSanitize /\ InitLocks
InitSpecSanitize == ParkAws /\ InitSession /\ InitKeys /\ InitUsers /\ InitSanitize /\ InitLocks
InitSpecLocks == ParkAws /\ InitSession /\ InitKeys /\ InitUsers /\ ParkSanitize /\ InitLocks

SpecAws == InitSpecAws /\ [][NextAws]_vars

\* every SDK call returns and every sleep ends: a step that can be taken is taken
SpecAwsFair == SpecAws /\ WF_vars(NextAws)

SpecSession == InitSpecSession /\ [][NextSession]_vars

SpecKeys == InitSpecKeys /\ [][NextKeys]_vars

SpecUsers == InitSpecUsers /\ [][NextUsers]_vars

SpecSanitize == InitSpecSanitize /\ [][NextSanitize]_vars

SpecLocks == InitSpecLocks /\ [][NextLocks]_vars

\* Go schedules every runnable goroutine, so a step that waits for nothing is taken.
\* A sync.Mutex hands over to a waiter that has waited long (starvation mode), which
\* holds for Store.mu, taken by writers only, and for the writers' mutex inside a
\* Session.mu: a goroutine that finds the mutex free again and again gets it.
SpecLocksFair ==
    /\ SpecLocks
    /\ \A g \in Goroutines :
          /\ WF_vars(Runs(g))
          /\ SF_vars(StoreLock(g))
          /\ SF_vars(SessionLock(g))


(***************************************************************************)
(* Properties of SafeRetry and of the orchestration, checked under SpecAws *)
(***************************************************************************)
SafeRetryRunning == pc \in {"sr_loop", "sr_sleep"}
SafeRetryReturned == retTo # "" /\ pc = retTo
Done == pc = "done"

AtLeastOne(n) == IF n >= 1 THEN n ELSE 1

\* C4: SafeRetry makes at most n = max(retries, 1) calls of fn, none after a call
\* that returned nil, whatever errors the calls returned; it returns nil iff a call
\* succeeded, and otherwise, after exactly n calls, the error of the n-th call wrapped.
C4_SafeRetryBlindFixedCount ==
    /\ (SafeRetryRunning \/ SafeRetryReturned) =>
          /\ srObs.calls <= AtLeastOne(srObs.given)
          /\ srObs.afterSuccess = 0
          /\ (SafeRetryRunning => ~srObs.succeeded)
    /\ SafeRetryReturned =>
          /\ (srErr = Nil) <=> srObs.succeeded
          /\ srObs.succeeded => srObs.lastResult = Nil
          /\ ~srObs.succeeded =>
                /\ srObs.calls = AtLeastOne(srObs.given)
                /\ srObs.lastResult \in SdkErrors
                /\ srErr = <<sr.actionName>> \o srObs.lastResult

\* a direct call with retries = 2 that failed twice, the second time with an error
\* no retry can cure, and returned that error wrapped
C4_Witness ==
    /\ op = "SafeRetry" /\ SafeRetryReturned
    /\ srObs.given = 2 /\ srObs.calls = 2
    /\ srErr = <<"fn", "AccessDeniedException">>

\* a direct call with retries = 0 still calls fn once
C4_WitnessClamped ==
    /\ op = "SafeRetry" /\ SafeRetryReturned
    /\ srObs.given = 0 /\ srObs.calls = 1

\* baseSleep * (1 + 0.35*i) as an exact duration: baseMs * (100 + 35*i) units of 10 us
ExactSleep(baseMs, i) ==
    LET t == baseMs * (100 + 35 * i)
    IN  [s |-> t \div 100000, ns |-> (t % 100000) * 10000]

OneNsLess(d) == IF d.ns = 0 THEN [s |-> d.s - 1, ns |-> 999999999]
                ELSE [s |-> d.s, ns |-> d.ns - 1]

Shorter(d, e) == d.s < e.s \/ (d.s = e.s /\ d.ns < e.ns)

\* C8 as claimed: every sleep lasts exactly baseSleep * (1 + 0.35*i)
C8_SleepIsExactFormula ==
    \A k \in 1..Len(srObs.slept) : srObs.slept[k] = ExactSleep(sr.baseSleep, k - 1)

\* C8 as amended: the sleep after failed attempt i is the float64 product truncated to
\* whole nanoseconds: the exact value baseSleep * (1 + 0.35*i) or 1 ns less, strictly
\* longer than the sleep before it, whatever error the attempt returned.
C8_SleepIsTruncatedFormula ==
    \A k \in 1..Len(srObs.slept) :
        /\ srObs.slept[k] \in {ExactSleep(sr.baseSleep, k - 1),
                              OneNsLess(ExactSleep(sr.baseSleep, k - 1))}
        /\ k > 1 => Shorter(srObs.slept[k - 1], srObs.slept[k])

\* seven failed attempts at 1200 ms: the seventh sleep is 3.719999999 s, not 3.72 s
C8_Witness ==
    /\ sr.baseSleep = 1200
    /\ Len(srObs.slept) >= 7
    /\ srObs.slept[1] = [s |-> 1, ns |-> 200000000]
    /\ srObs.slept[2] = [s |-> 1, ns |-> 620000000]
    /\ srObs.slept[7] = [s |-> 3, ns |-> 719999999]

\* C3 as claimed: an operation in which an SDK call failed and was not retried
\* successfully returns a non-nil error
SurfacingOps == {"ListInstances", "SwapStaticIPForInstance",
                 "DeleteInstanceWithStaticIPCleanup"}

C3_EveryFailureSurfaced ==
    (Done /\ op \in SurfacingOps /\ failed # {}) => result.err # Nil

\* C3 as amended: the failure of an operation's own calls is returned: ListInstances
\* returns an error iff its GetInstances failed; SwapStaticIPForInstance returns an
\* error when AllocateStaticIp or AttachStaticIp failed on every attempt;
\* DeleteInstanceWithStaticIPCleanup returns an error iff DeleteInstance failed on
\* every attempt. (Failures of GetStaticIps, of the swap's GetInstances and of the
\* nested detach/release cleanup are dropped.)
C3_OwnFailuresSurfaced ==
    Done =>
       /\ op = "ListInstances" => (result.err # Nil <=> "GetInstances" \in failed)
       /\ op = "SwapStaticIPForInstance" =>
             (({"AllocateStaticIp", "AttachStaticIp"} \cap failed # {}) => result.err # Nil)
       /\ op = "DeleteInstanceWithStaticIPCleanup" =>
             (result.err # Nil <=> "DeleteInstance" \in failed)

\* a swap whose cleanup failed and whose attach failed eight times returns the error
C3_Witness ==
    /\ Done /\ op = "SwapStaticIPForInstance"
    /\ "DetachStaticIp" \in failed /\ "AttachStaticIp" \in failed
    /\ calls["AttachStaticIp"] = AttachRetries
    /\ result.err # Nil

CallLimit ==
    [k \in Mutating |-> IF k = "ReleaseStaticIp" THEN 12 ELSE 8]

Orchestrations == {"DeletePreviousStaticIPOnlyForInstance", "SwapStaticIPForInstance",
                   "DeleteInstanceWithStaticIPCleanup"}

\* C7: every orchestration operation returns, having made at most 8 DetachStaticIp,
\* 12 ReleaseStaticIp, 8 AllocateStaticIp, 8 AttachStaticIp and 8 DeleteInstance
\* calls, and its polling loops do not run past their 120 s and 90 s deadlines.
C7_BoundedCallsAndTermination ==
    /\ [](\A k \in Mutating : calls[k] <= CallLimit[k])
    /\ [](pc = "wait_Poll" => elapsed <= 120)
    /\ [](pc = "gone_Poll" => elapsed <= 90)
    /\ (op \in Orchestrations) ~> Done

\* a swap that used every attempt of every retried call and returned
C7_Witness ==
    /\ Done /\ op = "SwapStaticIPForInstance"
    /\ calls = [k \in Mutating |-> IF k = "DeleteInstance" THEN 0 ELSE CallLimit[k]]

\* C10: in DeletePreviousStaticIPOnlyForInstance, ReleaseStaticIp is called only after
\* a DetachStaticIp succeeded and WaitStaticIPDetached returned true; when detach
\* fails on every attempt or the wait times out, no ReleaseStaticIp is made and an
\* error is returned; the old name is returned only after a GetStaticIp made after a
\* successful release reported an error; when no attached static IP is found, no
\* detach or release is made and ("", nil) is returned.
C10_DeletePreviousOrdered ==
    /\ calls["ReleaseStaticIp"] > 0 => (obs.detachOk /\ obs.waited /\ ok)
    /\ obs.goneErr => obs.releaseOk
    /\ dpResult.returned =>
          /\ ("DetachStaticIp" \in failed \/ (obs.waited /\ ~ok)) =>
                (calls["ReleaseStaticIp"] = 0 /\ dpResult.err # Nil /\ dpResult.val = "")
          /\ dpResult.val # "" =>
                (dpResult.val = oldName /\ dpResult.err = Nil
                    /\ obs.releaseOk /\ obs.goneErr)
          /\ ~obs.found =>
                /\ calls["DetachStaticIp"] = 0 /\ calls["ReleaseStaticIp"] = 0
                /\ dpResult.val = "" /\ dpResult.err = Nil
                /\ op = "DeletePreviousStaticIPOnlyForInstance" => calls = NoCalls

\* the whole sequence ran: detach, wait, release, gone, and the old name is returned
C10_Witness ==
    /\ Done /\ op = "DeletePreviousStaticIPOnlyForInstance"
    /\ result = [val |-> "old", err |-> Nil]
    /\ calls["DetachStaticIp"] > 1 /\ calls["ReleaseStaticIp"] > 1

\* the detach wait timed out and the function returned its error without a release
C10_WitnessTimeout ==
    /\ dpResult.returned /\ obs.waited /\ ~ok
    /\ dpResult.err = <<"DetachTimeout", "old">>

(***************************************************************************)
(* Properties of the session store, checked under SpecSession              *)
(***************************************************************************)
\* the entries of Store.m that a step deletes
Deleted == {id \in DOMAIN stm : id \notin DOMAIN stm'}

\* C5: every run of cleanupExpired removes every session whose last access was more
\* than ttl (30 minutes) before the start of the run, and removes no session that was
\* accessed within ttl: a deleted session's last access is more than ttl ago.
C5_SweepEvictsByTtl ==
    [][ /\ (spc = "range" /\ spc' = "wait") =>
              \A id \in DOMAIN sweepObs.atStart :
                  sweepObs.atStart[id].lastAccess < sweepObs.start - ttl
                      => ~(id \in DOMAIN stm' /\ stm'[id] = sweepObs.atStart[id].obj)
        /\ \A id \in Deleted : now - heap[stm[id]].lastAccess > ttl
      ]_vars

\* the first half of C5 alone
SweepRemovesEveryExpired ==
    [][ (spc = "range" /\ spc' = "wait") =>
              \A id \in DOMAIN sweepObs.atStart :
                  sweepObs.atStart[id].lastAccess < sweepObs.start - ttl
                      => ~(id \in DOMAIN stm' /\ stm'[id] = sweepObs.atStart[id].obj)
      ]_vars

\* the second half of C5 alone
SweepRemovesNoFresh ==
    [][ \A id \in Deleted : now - heap[stm[id]].lastAccess > ttl ]_vars

\* the sweeper is about to delete a session that its handler touched after the
\* sweeper had read LastAccess()
SweepRace ==
    /\ spc = "check"
    /\ Before(curLast, expiredBefore)
    /\ heap[stm[cur]].lastAccess = now

\* C6 as stated: the number of entries stays under a fixed bound, here under the
\* number of ids that clients present
C6_SizeWithinFixedBound == Cardinality(DOMAIN stm) < Cardinality(SessionIds)

\* C6: the map holds at most one entry per distinct id passed to GetOrCreate, and
\* when the range loop of a sweep is over every entry left was accessed at or after
\* expiredBefore (the start of the sweep minus ttl).
C6_BoundedByRequestedIds ==
    /\ DOMAIN stm \subseteq requested
    /\ Cardinality(DOMAIN stm) <= Cardinality(requested)
    /\ (spc = "range" /\ todo = {}) =>
          \A id \in DOMAIN stm : heap[stm[id]].lastAccess >= expiredBefore

\* a sweep has deleted one session and kept the other, which was accessed exactly
\* ttl before the sweep started
C6_Witness ==
    /\ spc = "range" /\ todo = {}
    /\ Cardinality(DOMAIN sweepObs.atStart) = 2
    /\ Cardinality(DOMAIN stm) = 1
    /\ \E id \in DOMAIN stm : heap[stm[id]].lastAccess = expiredBefore

(***************************************************************************)
(* Properties of the api_keys operations, checked under SpecKeys           *)
(***************************************************************************)
\* the rows of the table as ListKeys returns them
KeyOfRow(id, row) ==
    [ID |-> id, UserID |-> row.user_id, Name |-> row.name, AccessKey |-> row.access_key,
     SecretKey |-> row.secret_key, Proxy |-> row.proxy]

\* C1: a successful ListKeys(U) returns exactly the rows whose user_id is U, each once,
\* and an UpdateKey or DeleteKey by user U leaves every row of another user in the
\* table and unchanged.
C1_KeysScopedToOwner ==
    [][ /\ (keyCall'.fn = "ListKeys" /\ keyRet'.err = Nil) =>
              /\ {keyRet'.keys[k] : k \in 1..Len(keyRet'.keys)} =
                     {KeyOfRow(id, api_keys[id]) :
                          id \in {i \in DOMAIN api_keys :
                                      api_keys[i].user_id = keyCall'.userID}}
              /\ \A j, k \in 1..Len(keyRet'.keys) :
                     j < k => keyRet'.keys[j].ID > keyRet'.keys[k].ID
        /\ (keyCall'.fn \in {"UpdateKey", "DeleteKey"}) =>
              \A id \in DOMAIN api_keys :
                  api_keys[id].user_id # keyCall'.userID =>
                      id \in DOMAIN api_keys' /\ api_keys'[id] = api_keys[id]
      ]_vars

\* a user's UpdateKey with valid values named the key of another user and succeeded
C1_Witness ==
    /\ keyCall.fn = "UpdateKey"
    /\ keyRet.err = Nil
    /\ keyCall.keyID \in DOMAIN api_keys
    /\ api_keys[keyCall.keyID].user_id # keyCall.userID
    /\ \E id \in DOMAIN api_keys : api_keys[id].user_id = keyCall.userID

\* a user's DeleteKey named the key of another user and succeeded
C1_WitnessDelete ==
    /\ keyCall.fn = "DeleteKey"
    /\ keyRet.err = Nil
    /\ keyCall.keyID \in DOMAIN api_keys
    /\ api_keys[keyCall.keyID].user_id # keyCall.userID

\* ListKeys returned some rows while the table holds another user's rows too
C1_WitnessList ==
    /\ keyCall.fn = "ListKeys"
    /\ Len(keyRet.keys) = 2
    /\ \E id \in DOMAIN api_keys : api_keys[id].user_id # keyCall.userID

(***************************************************************************)
(* Properties of EnsureUser, checked under SpecUsers                       *)
(***************************************************************************)
\* C2: no two rows of users hold the same trimmed username, and for every username at
\* most one EnsureUser call has returned created = true.
C2_UsernamesUnique ==
    /\ \A j, k \in 1..Len(users) :
           j # k => TrimSpace(users[j].username) # TrimSpace(users[k].username)
    /\ \A n \in DOMAIN createdTrue : createdTrue[n] <= 1

\* two callers passed the existence check for the same username; one inserted the row,
\* the other's INSERT was refused
C2_Witness ==
    \E c, d \in Callers :
        /\ c # d
        /\ uret[c] = UserRet(TRUE, Nil)
        /\ uret[d] = UserRet(FALSE, UniqueError)
        /\ Len(users) = 1

(***************************************************************************)
(* Properties of sanitize, checked under SpecSanitize                      *)
(***************************************************************************)
\* a-z, 0-9 and '-'
Allowed == (97..122) \cup (48..57) \cup {45}

\* the lower-cased input characters that are allowed, in their order
Survivors(s) == SelectSeq(StringsToLower(s), LAMBDA r : r \in Allowed)

\* C9 as stated: the result is non-empty, made of allowed characters, the surviving
\* characters in order, "x" exactly when no character survives, and a fixed point.
C9_XExactlyWhenNoneSurvive ==
    /\ sanPc # "in" =>
          /\ sanOut # <<>>
          /\ \A k \in 1..Len(sanOut) : sanOut[k] \in Allowed
          /\ Survivors(sanIn) # <<>> => sanOut = Survivors(sanIn)
          /\ (sanOut = <<120>>) <=> (Survivors(sanIn) = <<>>)
    /\ sanPc = "again" => sanAgain = sanOut

\* C9: the result is non-empty and made of allowed characters; it is "x" when no
\* character survives and otherwise the surviving characters in order (which can spell
\* "x" themselves); sanitize is idempotent.
C9_SanitizeKeepsAllowed ==
    /\ sanPc # "in" =>
          /\ sanOut # <<>>
          /\ \A k \in 1..Len(sanOut) : sanOut[k] \in Allowed
          /\ Survivors(sanIn) # <<>> => sanOut = Survivors(sanIn)
          /\ Survivors(sanIn) = <<>> => sanOut = <<120>>
    /\ sanPc = "again" => sanAgain = sanOut

\* sanitize returned "x" for an input of which a character survives
C9_Witness ==
    /\ sanPc = "again"
    /\ Survivors(sanIn) # <<>>
    /\ sanOut = <<120>>

\* sanitize returned "x" for a non-empty input of which no character survives
C9_WitnessFallback ==
    /\ sanPc = "again"
    /\ sanIn # <<>>
    /\ Survivors(sanIn) = <<>>
    /\ sanOut = <<120>>

(***************************************************************************)
(* Further properties of the orchestration, checked under SpecAws          *)
(***************************************************************************)
StaticIpCalls == {"DetachStaticIp", "ReleaseStaticIp", "AllocateStaticIp",
                  "AttachStaticIp"}

Swapping == op = "SwapStaticIPForInstance"
Deleting == op = "DeleteInstanceWithStaticIPCleanup"

\* C11: a swap for an instance without public IPv4 address makes no DetachStaticIp,
\* ReleaseStaticIp, AllocateStaticIp or AttachStaticIp call, leaves the static IPs as
\* they were and returns an error.
C11_Ipv6OnlyRejected ==
    (Swapping /\ aws.instance = "ipv6only") =>
        /\ \A k \in StaticIpCalls : calls[k] = 0
        /\ aws.old \in {"attached", "none"}
        /\ aws.new = "none"
        /\ Done => result.err # Nil

\* the same for the swaps whose GetInstances call answered
Ipv6OnlyRejectedWhenListed ==
    (Swapping /\ aws.instance = "ipv6only" /\ "GetInstances" \notin failed
       /\ pc # "sw_GetInstances") =>
        /\ \A k \in StaticIpCalls : calls[k] = 0
        /\ aws.old \in {"attached", "none"}
        /\ aws.new = "none"
        /\ Done /\ result.err # Nil

\* GetInstances failed for an IPv6-only instance and the swap allocated a static IP
C11_CheckSkipped ==
    /\ Swapping /\ aws.instance = "ipv6only"
    /\ "GetInstances" \in failed
    /\ aws.new = "allocated"

\* C12: a swap that returns nil for an instance that had a static IP attached has
\* detached and released that static IP and attached the new one, and
\* AllocateStaticIp is not called while the old static IP is attached.
C12_SwapReplacesOldIp ==
    (Swapping /\ aws.old # "none") =>
        /\ (Done /\ result.err = Nil) => (aws.old = "released" /\ aws.new = "attached")
        /\ calls["AllocateStaticIp"] > 0 => aws.old # "attached"

\* every DetachStaticIp attempt failed, and the swap attached the new static IP
\* next to the old one and returned nil
C12_OldStillAttached ==
    /\ Swapping /\ Done /\ result.err = Nil
    /\ calls["DetachStaticIp"] = DetachRetries
    /\ aws.old = "attached" /\ aws.new = "attached"

\* C13: a swap that returns an error after AllocateStaticIp succeeded leaves no new
\* static IP allocated and unattached.
C13_NoLeakOnFailure ==
    (Swapping /\ Done /\ result.err # Nil) => aws.new # "allocated"

\* every AttachStaticIp attempt failed and the swap returned with the new static IP
\* allocated
C13_Leak ==
    /\ Swapping /\ Done /\ result.err # Nil
    /\ calls["AttachStaticIp"] = AttachRetries
    /\ aws.new = "allocated"

\* C14: DeleteInstance is called only after the static-IP cleanup has returned, at
\* most 8 times and at least once before the operation returns, whatever the cleanup
\* returned; the operation returns nil iff a DeleteInstance call succeeded.
C14_DeleteInstanceBestEffort ==
    Deleting =>
        /\ calls["DeleteInstance"] > 0 => dpResult.returned
        /\ calls["DeleteInstance"] <= 8
        /\ Done => /\ calls["DeleteInstance"] >= 1
                   /\ (result.err = Nil) <=> ("DeleteInstance" \notin failed)

\* the cleanup failed and the delete returned nil
C14_Witness ==
    /\ Deleting /\ Done
    /\ dpResult.returned /\ dpResult.err # Nil
    /\ result.err = Nil

\* the cleanup succeeded and every DeleteInstance attempt failed
C14_WitnessDeleteFailed ==
    /\ Deleting /\ Done
    /\ dpResult.returned /\ dpResult.err = Nil /\ dpResult.val # ""
    /\ calls["DeleteInstance"] = DeleteRetries
    /\ result.err # Nil

\* C15: a SafeRetry that has returned has slept once less than it has called fn:
\* k-1 times when attempt k succeeded, n-1 times when all n attempts failed.
C15_SleepsOnlyBetweenAttempts ==
    SafeRetryReturned => Len(srObs.slept) = srObs.calls - 1

\* what SafeRetry does: a sleep follows every failed attempt, the last one too
SleepsAfterEveryFailure ==
    SafeRetryReturned =>
        Len(srObs.slept) = IF srObs.succeeded THEN srObs.calls - 1 ELSE srObs.calls

\* SafeRetry with retries = 1 called fn once, slept, and returned the error
C15_SleepAfterLastAttempt ==
    /\ op = "SafeRetry" /\ SafeRetryReturned
    /\ srObs.given = 1 /\ srObs.calls = 1 /\ ~srObs.succeeded
    /\ Len(srObs.slept) = 1

(***************************************************************************)
(* Further properties of the session store, checked under SpecSession      *)
(***************************************************************************)
\* handler h returns from GetOrCreate in this step
GetOrCreateReturns(h) == hpc[h] = "GetOrCreate" /\ hpc'[h] = "handling"

\* C16: a Session object is created for an id only when the map holds none for it, so
\* without an eviction in between one object is created; every GetOrCreate(id)
\* returns the object the map holds for id, and a call that finds one returns it with
\* the values stored in it.
C16_OneSessionPerId ==
    [][ /\ \A id \in SessionIds : gen'[id] # gen[id] => id \notin DOMAIN stm
        /\ \A h \in Handlers : GetOrCreateReturns(h) =>
              /\ hid[h] \in DOMAIN stm'
              /\ href'[h] = stm'[hid[h]]
              /\ hid[h] \in DOMAIN stm =>
                    /\ stm' = stm
                    /\ heap'[href'[h]].m = heap[stm[hid[h]]].m
      ]_vars

\* both handlers called GetOrCreate with the same id and hold the one Session created
\* for it, in which one of them has stored a value
C16_Witness ==
    /\ \A h \in Handlers : hpc[h] = "handling"
    /\ href["h1"] = href["h2"]
    /\ gen[href["h1"][1]] = 1
    /\ heap[href["h1"]].m # {}

\* C18: the session that GetOrCreate(id) returns holds every value that was stored
\* less than ttl ago with SetString on a session obtained from GetOrCreate(id).
C18_WriteSurvivesEviction ==
    [][ \A h \in Handlers : GetOrCreateReturns(h) =>
            \A o \in DOMAIN heap : \A kv \in heap[o].m :
                (o[1] = hid[h] /\ now - kv[2] < ttl) => kv \in heap'[href'[h]].m
      ]_vars

\* one handler holds the session of an id with a value stored in this minute, the
\* other has just got an empty session for the same id from GetOrCreate
C18_WriteLost ==
    \E h, g \in Handlers :
        /\ hpc[h] = "handling" /\ hpc[g] = "handling"
        /\ href[h] # href[g]
        /\ href[h][1] = href[g][1]
        /\ heap[href[h]].m = {<<"k", now>>}
        /\ heap[href[g]].m = {}

(***************************************************************************)
(* The locks of the session store, checked under SpecLocksFair             *)
(***************************************************************************)
\* g is inside a Lock or RLock call that has not returned
Waiting(g) == lkPc[g] \in {"stLock", "wLock", "wDrain", "rLock", "rWait"}

\* g holds or has claimed the mutex of some Session
HoldsSessionMu(g) == \E a \in Addresses : lkW[a] = g \/ g \in lkR[a]

\* no goroutine is in st.mu.Lock() while it holds a session mutex, and a goroutine
\* that holds both took Store.mu first: it is in GetOrCreate or cleanupExpired
LockOrder ==
    \A g \in Goroutines :
        HoldsSessionMu(g) =>
            /\ lkPc[g] # "stLock"
            /\ lkOp[g] \in {"GetOrCreate", "cleanupExpired"} <=> lkStore = g

\* C17: the session locks never deadlock: Store.mu is never requested by a goroutine
\* that holds a session mutex, and every Lock and RLock call of a request goroutine
\* or of the sweeper eventually returns.
C17_NoDeadlock ==
    /\ []LockOrder
    /\ \A g \in Goroutines : Waiting(g) ~> ~Waiting(g)

\* the sweeper holds Store.mu and is blocked in RLock behind a request that is in
\* touch, while the other request waits for Store.mu in GetOrCreate
C17_Witness ==
    /\ lkStore = Sweeper
    /\ lkPc[Sweeper] = "rWait"
    /\ \E h \in Handlers : lkPc[h] = "wHeld" /\ lkTgt[h] = lkTgt[Sweeper]
    /\ \E h \in Handlers : lkPc[h] = "stLock"

(***************************************************************************)
(* Further properties of the users table, checked under SpecUsers          *)
(***************************************************************************)
\* caller c takes a step of EnsureUser
EnsureUserSteps(c) == <<upc[c], uarg[c], uret[c]>> # <<upc'[c], uarg'[c], uret'[c]>>

\* the table holds a row with this username
HasRow(username) == \E k \in 1..Len(users) : users[k].username = username

\* C19: EnsureUser creates and never updates. No step changes or removes a row. A
\* call whose SELECT runs when a row with its trimmed username exists inserts nothing
\* and returns (false, nil), or (false, err) with the error of a failed statement. A
\* call goes on to the SELECT with a non-empty trimmed username and password only:
\* every other call returns (false, "username/password required") at once and inserts
\* nothing, so no row has an empty username or the hash of an empty password.
C19_EnsureUserNeverUpdates ==
    [][ /\ Len(users') >= Len(users)
        /\ SubSeq(users', 1, Len(users)) = users
        /\ \A k \in 1..Len(users') :
              /\ users'[k].username # <<>>
              /\ users'[k].password_hash # PasswordHash(<<>>)
        /\ \A c \in Callers :
              /\ (EnsureUserSteps(c) /\ upc[c] = "select" /\ HasRow(uarg[c].username)) =>
                    /\ users' = users
                    /\ uret'[c].returned
                    /\ ~uret'[c].created
                    /\ uret'[c].err \in {Nil} \cup DbErrors
              /\ (EnsureUserSteps(c) /\ upc[c] = "idle") =>
                    /\ users' = users
                    /\ \/ /\ upc'[c] = "select"
                          /\ uarg'[c].username # <<>>
                          /\ uarg'[c].password # <<>>
                       \/ uret'[c] = UserRet(FALSE, <<"username/password required">>)
      ]_vars

\* a call with the username of an existing user and another password than the one
\* the user was created with has returned (false, nil)
C19_Witness ==
    \E c \in Callers :
        /\ upc[c] = "idle"
        /\ uret[c] = UserRet(FALSE, Nil)
        /\ \E k \in 1..Len(users) :
              /\ users[k].username = uarg[c].username
              /\ users[k].password_hash # PasswordHash(uarg[c].password)
              /\ createdWith[uarg[c].username] # uarg[c].password

\* a call with an empty trimmed argument has returned its error
C19_WitnessRequired ==
    \E c \in Callers :
        /\ uret[c] = UserRet(FALSE, <<"username/password required">>)
        /\ Len(users) > 0

\* C20: AuthenticateUser(u, p) returns a user if and only if a user with the trimmed
\* u exists and the trimmed p is the trimmed password of the EnsureUser call that
\* created it; otherwise it returns an error and no user. A failed statement is left
\* aside: its error is returned whatever the credentials.
C20_OnlyCreatingPassword ==
    [][ (auth' # auth /\ auth'.err \notin DbErrors) =>
            /\ auth'.returned
            /\ (auth'.user # <<>>) <=> (auth'.err = Nil)
            /\ (auth'.user # <<>>) <=>
                  /\ HasRow(auth'.username)
                  /\ auth'.password # <<>>
                  /\ createdWith[auth'.username] = auth'.password
      ]_vars

\* what holds instead: the password is admitted when bcrypt derives from it the key
\* it derived from the creating password
AdmitsSameBcryptKey ==
    [][ (auth' # auth /\ auth'.err \notin DbErrors) =>
            /\ auth'.returned
            /\ (auth'.user # <<>>) <=> (auth'.err = Nil)
            /\ (auth'.user # <<>>) <=>
                  /\ HasRow(auth'.username)
                  /\ auth'.password # <<>>
                  /\ BcryptKey(createdWith[auth'.username]) = BcryptKey(auth'.password)
            /\ auth'.user # <<>> => auth'.user[1].username = auth'.username
      ]_vars

\* a user was created with a password of 72 characters and AuthenticateUser has
\* returned the user for a password that is longer by one character
C20_LongerPasswordAdmitted ==
    /\ auth.returned
    /\ auth.user # <<>>
    /\ auth.password = LongerPassword
    /\ createdWith[auth.username] = LongPassword

====
